---- MODULE Spec2Model ----
(***************************************************************************)
(* Model of homeassistant/components/binary_sensor/isy994.py: the device   *)
(* type classifier, platform setup, the primary/negative node event        *)
(* handlers of ISYBinarySensorDevice and the 25 hour heartbeat timer of    *)
(* ISYBinarySensorHeartbeat.                                               *)
(*                                                                         *)
(* Python values are written as strings: "None", "True", "False".  Text    *)
(* (type codes) is a sequence of one-character strings.  A node id is the  *)
(* pair <<address, subnode character>>, so nid[-1] is its second element.  *)
(***************************************************************************)
EXTENDS FiniteSets, Integers, Sequences, TLC

VARIABLES
    pc,             \* "detect" | "detected" | "start" | "done" | "raised" | "not_connected"
    type_arg,       \* the node handed to _detect_device_type
    type_result,    \* what _detect_device_type returned or raised
    connected,      \* isy.ISY is not None and isy.ISY.connected
    nodes,          \* isy.filter_nodes(isy.SENSOR_NODES, ...), in order
    programs,       \* isy.PROGRAMS.get(DOMAIN, [])
    devices,        \* the list handed to add_devices
    dev,            \* nid -> ISYBinarySensorDevice fields
    hb,             \* nid -> ISYBinarySensorHeartbeat fields
    added,          \* entities whose async_added_to_hass has run
    timers,         \* the host's pending point-in-time listeners
    since,          \* heartbeat nid -> hours since its timer was last restarted
    last            \* the operation that produced this state

vars == <<pc, type_arg, type_result, connected, nodes, programs, devices,
          dev, hb, added, timers, since, last>>

----------------------------------------------------------------------------
(* Bounds *)

MaxTypeLen == 5
MaxNodes == 3
MaxPrograms == 1
MaxTimers == 2
MaxSince == 26
MaxListed == 3
MaxChildren == 2

TypeChars == {"1", "2", "6", "8", "."}

----------------------------------------------------------------------------
(* Device type classifier *)

Str4(a, b, c, d) == <<a, b, c, d>>
Str5(a, b, c, d, e) == <<a, b, c, d, e>>

ISY_DEVICE_TYPES ==
    [moisture |-> {Str4("1","6",".","8"), Str5("1","6",".","1","3"),
                   Str5("1","6",".","1","4")},
     opening  |-> {Str4("1","6",".","9"), Str4("1","6",".","6"),
                   Str4("1","6",".","7"), Str4("1","6",".","2"),
                   Str5("1","6",".","1","7"), Str5("1","6",".","2","0"),
                   Str5("1","6",".","2","1")},
     motion   |-> {Str4("1","6",".","1"), Str4("1","6",".","4"),
                   Str4("1","6",".","5"), Str4("1","6",".","3")}]

RECURSIVE SplitFrom(_, _, _, _)
SplitFrom(s, i, cur, acc) ==
    IF i > Len(s) THEN Append(acc, cur)
    ELSE IF s[i] = "." THEN SplitFrom(s, i + 1, <<>>, Append(acc, cur))
    ELSE SplitFrom(s, i + 1, Append(cur, s[i]), acc)

\* str.split('.')
Split(s) == SplitFrom(s, 1, <<>>, <<>>)

\* '{}.{}'.format(a, b)
Format2(a, b) == a \o <<".">> \o b

DetectDeviceType(node) ==
    IF ~node.has_type THEN "None"
    ELSE LET split_type == Split(node.type) IN
         IF Len(split_type) < 2 THEN "IndexError"
         ELSE LET key == Format2(split_type[1], split_type[2]) IN
              IF key \in ISY_DEVICE_TYPES.moisture THEN "moisture"
              ELSE IF key \in ISY_DEVICE_TYPES.opening THEN "opening"
              ELSE IF key \in ISY_DEVICE_TYPES.motion THEN "motion"
              ELSE "None"

----------------------------------------------------------------------------
(* Values *)

NegInf == 0 - 1000000      \* stands for -1*float('inf'), PyISY's UNKNOWN
NoNode == <<>>             \* None where a node, nid or device is expected
NoHandle == 0              \* None where a timer handle is expected
TimerHours == 25
STATE_ON == "on"
STATE_OFF == "off"

Bool(v) == IF v = "True" THEN "True" ELSE "False"
Not(v) == IF v = "True" THEN "False" ELSE "True"
BoolOfNumber(n) == IF n = 0 THEN "False" ELSE "True"

IsValUnknown(val) == val = NegInf

\* _is_val_unknown applied to a node object instead of a number: an object
\* never compares equal to a float.
IsValUnknownOfNode(node) == FALSE

Digits == <<"0", "1", "2", "3", "4", "5", "6", "7", "8", "9">>

\* int(c) for one character; -1 stands for ValueError
IntOfChar(c) ==
    IF \E i \in 1..Len(Digits) : Digits[i] = c
    THEN (CHOOSE i \in 1..Len(Digits) : Digits[i] = c) - 1
    ELSE 0 - 1

Entity(kind, id) == [kind |-> kind, id |-> id]

----------------------------------------------------------------------------
(* Object construction *)

\* ISYBinarySensorDevice.__init__
NewDevice(node) ==
    [negative_node |-> NoNode,
     heartbeat_device |-> NoNode,
     device_class |-> DetectDeviceType(node),
     computed_state |-> IF IsValUnknown(node.val) THEN "None"
                        ELSE BoolOfNumber(node.val)]

NewHeartbeat_StartsAlive(node, parent_nid) ==
    [computed_state |-> "False",
     parent_device |-> parent_nid,
     heartbeat_timer |-> NoHandle]

\* ISYBinarySensorHeartbeat.__init__
NewHeartbeat(node, parent_nid) ==
    [computed_state |-> "None",
     parent_device |-> parent_nid,
     heartbeat_timer |-> NoHandle]

\* ISYBinarySensorDevice.add_heartbeat_device
AddHeartbeatDevice(d, h_nid) == [d EXCEPT !.heartbeat_device = h_nid]

AddNegativeNode_ChecksStatus(d, child) ==
    LET d1 == [d EXCEPT !.negative_node = child.nid] IN
    IF ~IsValUnknown(child.val)
    THEN [d1 EXCEPT !.computed_state = "None"]
    ELSE d1

\* ISYBinarySensorDevice.add_negative_node
AddNegativeNode(d, child) ==
    LET d1 == [d EXCEPT !.negative_node = child.nid] IN
    IF ~IsValUnknownOfNode(child)
    THEN [d1 EXCEPT !.computed_state = "None"]
    ELSE d1

----------------------------------------------------------------------------
(* setup_platform *)

EmptyFn == [x \in {} |-> x]

SetupStart ==
    [devices |-> <<>>, devices_by_nid |-> {}, child_nodes |-> <<>>,
     dev |-> EmptyFn, hb |-> EmptyFn, raised |-> FALSE]

\* the body of the first loop for one node
RootStep(st, node) ==
    IF node.parent_node = NoNode
    THEN IF DetectDeviceType(node) = "IndexError"
         THEN [st EXCEPT !.raised = TRUE]
         ELSE [st EXCEPT !.devices = Append(@, Entity("device", node.nid)),
                         !.devices_by_nid = @ \cup {node.nid},
                         !.dev = (node.nid :> NewDevice(node)) @@ @]
    ELSE [st EXCEPT !.child_nodes = Append(@, node)]

UsesSubnodes_WithMotion(device_type) ==
    device_type \in {"moisture", "opening", "motion"}

\* device_type in ['moisture', 'opening']
UsesSubnodes(device_type) == device_type \in {"moisture", "opening"}

OrphanChild_Raises(st, node) == [st EXCEPT !.raised = TRUE]

\* the except KeyError branch of the second loop: logged, skipped
OrphanChild(st, node) == st

\* the body of the second loop for one child node
ChildStep(st, node) ==
    IF node.parent_node \notin st.devices_by_nid
    THEN OrphanChild(st, node)
    ELSE LET parent == node.parent_node
             device_type == DetectDeviceType(node)
             subnode_id == IntOfChar(node.nid[2])
         IN
         IF device_type = "IndexError" THEN [st EXCEPT !.raised = TRUE]
         ELSE IF UsesSubnodes(device_type)
         THEN IF subnode_id < 0 THEN [st EXCEPT !.raised = TRUE]
              ELSE IF subnode_id = 4
              THEN [st EXCEPT
                      !.hb = (node.nid :> NewHeartbeat(node, parent)) @@ @,
                      !.dev[parent] = AddHeartbeatDevice(@, node.nid),
                      !.devices = Append(@, Entity("heartbeat", node.nid))]
              ELSE IF subnode_id = 2
              THEN [st EXCEPT !.dev[parent] = AddNegativeNode(@, node)]
              ELSE st
         ELSE [st EXCEPT !.devices = Append(@, Entity("device", node.nid)),
                         !.dev = (node.nid :> NewDevice(node)) @@ @]

ProgramStep_AddsAlways(st, program) ==
    [st EXCEPT !.devices = Append(@, Entity("program", program.name))]

\* the body of the third loop for one program
ProgramStep(st, program) ==
    IF program.status = "missing"
    THEN st      \* KeyError / AssertionError: pass
    ELSE [st EXCEPT !.devices = Append(@, Entity("program", program.name))]

RECURSIVE RootLoop(_, _, _)
RootLoop(st, ns, i) ==
    IF i > Len(ns) \/ st.raised THEN st
    ELSE RootLoop(RootStep(st, ns[i]), ns, i + 1)

RECURSIVE ChildLoop(_, _, _)
ChildLoop(st, ns, i) ==
    IF i > Len(ns) \/ st.raised THEN st
    ELSE ChildLoop(ChildStep(st, ns[i]), ns, i + 1)

RECURSIVE ProgramLoop(_, _, _)
ProgramLoop(st, ps, i) ==
    IF i > Len(ps) \/ st.raised THEN st
    ELSE ProgramLoop(ProgramStep(st, ps[i]), ps, i + 1)

RECURSIVE SinglePassLoop(_, _, _)
SinglePassLoop(st, ns, i) ==
    IF i > Len(ns) \/ st.raised THEN st
    ELSE SinglePassLoop(IF ns[i].parent_node = NoNode
                        THEN RootStep(st, ns[i])
                        ELSE ChildStep(st, ns[i]), ns, i + 1)

RunSetup_SinglePass(ns, ps) ==
    ProgramLoop(SinglePassLoop(SetupStart, ns, 1), ps, 1)

RunSetup(ns, ps) ==
    LET s1 == RootLoop(SetupStart, ns, 1)
        s2 == ChildLoop(s1, s1.child_nodes, 1)
    IN ProgramLoop(s2, ps, 1)

----------------------------------------------------------------------------
(* The host's one-shot point-in-time listeners: slot -> pending timer *)

NoTimer == [owner |-> NoNode, remaining |-> 0 - 1]
Slots == 1..MaxTimers
Pending(tms) == {k \in Slots : tms[k] # NoTimer}
FreeSlots(tms) == Slots \ Pending(tms)
Lowest(S) == CHOOSE k \in S : \A j \in S : k <= j

\* async_track_point_in_utc_time(hass, timer_elapsed, utcnow() + 25h):
\* registers the listener and returns the handle that removes it
TrackPointInTime(tms, owner) ==
    LET slot == Lowest(FreeSlots(tms)) IN
    [handle |-> slot,
     timers |-> [tms EXCEPT ![slot] = [owner |-> owner,
                                       remaining |-> TimerHours]]]

\* calling the handle returned by async_track_point_in_utc_time
CancelTimer(tms, handle) == [tms EXCEPT ![handle] = NoTimer]

----------------------------------------------------------------------------
(* ISYBinarySensorHeartbeat; H is [hb, timers, since] *)

CancelPrevious_KeepsListener(H, h) ==
    [H EXCEPT !.hb[h].heartbeat_timer = NoHandle]

\* the try block of _restart_timer
CancelPrevious(H, h) ==
    IF H.hb[h].heartbeat_timer # NoHandle
    THEN [H EXCEPT !.timers = CancelTimer(@, H.hb[h].heartbeat_timer),
                   !.hb[h].heartbeat_timer = NoHandle]
    ELSE H       \* TypeError: no heartbeat timer is active

RestartTimer(H, h) ==
    LET H1 == CancelPrevious(H, h)
        t == TrackPointInTime(H1.timers, h)
    IN [H1 EXCEPT !.timers = t.timers,
                  !.hb[h].heartbeat_timer = t.handle]

CanRestart(H, h) == FreeSlots(CancelPrevious(H, h).timers) # {}

HeartbeatBeat_KeepsFlag(H, h) ==
    [RestartTimer(H, h) EXCEPT !.since[h] = 0]

HeartbeatBeat_NoRestart(H, h) ==
    [H EXCEPT !.hb[h].computed_state = "False", !.since[h] = 0]

\* ISYBinarySensorHeartbeat.heartbeat; the call is a liveness notification,
\* so the hours counted since the last one start again
HeartbeatBeat(H, h) ==
    [RestartTimer([H EXCEPT !.hb[h].computed_state = "False"], h)
        EXCEPT !.since[h] = 0]

\* the callback timer_elapsed defined in _restart_timer
TimerElapsedCallback(H, h) ==
    [H EXCEPT !.hb[h].computed_state = "True",
              !.hb[h].heartbeat_timer = NoHandle]

HeartbeatNodeBeats_OnAndOff(event) == event \in {"DON", "DOF"}

\* the test of _heartbeat_node_control_handler
HeartbeatNodeBeats(event) == event = "DON"

HeartbeatValue(h) == hb[h].computed_state
HeartbeatIsOn(h) == Bool(HeartbeatValue(h))
HeartbeatState(h) ==
    IF hb[h].computed_state = "None" THEN "None"
    ELSE IF HeartbeatIsOn(h) = "True" THEN STATE_ON ELSE STATE_OFF

----------------------------------------------------------------------------
(* ISYBinarySensorDevice *)

\* ISYBinarySensorDevice._heartbeat
DeviceHeartbeat(H, d) ==
    IF dev[d].heartbeat_device # NoNode
    THEN HeartbeatBeat(H, dev[d].heartbeat_device)
    ELSE H

CanDeviceHeartbeat(H, d) ==
    dev[d].heartbeat_device # NoNode => CanRestart(H, dev[d].heartbeat_device)

PositiveResult_BeatOnChange(state, event) ==
    IF event = "DON"
    THEN [computed_state |-> "True", beat |-> state # "True"]
    ELSE IF event = "DOF"
    THEN [computed_state |-> "False", beat |-> state # "False"]
    ELSE [computed_state |-> state, beat |-> FALSE]

PositiveResult_FastOn(state, event) ==
    IF event \in {"DON", "DFON"}
    THEN [computed_state |-> "True", beat |-> TRUE]
    ELSE IF event = "DOF" THEN [computed_state |-> "False", beat |-> TRUE]
    ELSE [computed_state |-> state, beat |-> FALSE]

\* what _positive_node_control_handler does with an event: the new computed
\* state and whether _heartbeat is called
PositiveResult(state, event) ==
    IF event = "DON" THEN [computed_state |-> "True", beat |-> TRUE]
    ELSE IF event = "DOF" THEN [computed_state |-> "False", beat |-> TRUE]
    ELSE [computed_state |-> state, beat |-> FALSE]

NegativeResult_SetsOn(state, event) ==
    IF event = "DON" THEN [computed_state |-> "True", beat |-> TRUE]
    ELSE [computed_state |-> state, beat |-> FALSE]

NegativeResult_OnlyFromUnknown(state, event) ==
    IF event = "DON" /\ state = "None"
    THEN [computed_state |-> "False", beat |-> TRUE]
    ELSE [computed_state |-> state, beat |-> event = "DON"]

NegativeResult_OffBeats(state, event) ==
    IF event = "DON" THEN [computed_state |-> "False", beat |-> TRUE]
    ELSE [computed_state |-> state, beat |-> event = "DOF"]

\* what _negative_node_control_handler does with an event
NegativeResult(state, event) ==
    IF event = "DON" THEN [computed_state |-> "False", beat |-> TRUE]
    ELSE [computed_state |-> state, beat |-> FALSE]

DeviceClass(d) == dev[d].device_class

DeviceValue_InvertsFirst(d) ==
    IF DeviceClass(d) = "moisture" THEN Not(dev[d].computed_state)
    ELSE dev[d].computed_state

DeviceValue(d) ==
    IF dev[d].computed_state = "None" THEN "None"
    ELSE IF DeviceClass(d) = "moisture" THEN Not(dev[d].computed_state)
    ELSE dev[d].computed_state

DeviceIsOn(d) == Bool(DeviceValue(d))

DeviceState_FromIsOn(d) ==
    IF DeviceIsOn(d) = "True" THEN STATE_ON ELSE STATE_OFF

DeviceState(d) ==
    IF dev[d].computed_state = "None" THEN "None"
    ELSE IF DeviceIsOn(d) = "True" THEN STATE_ON ELSE STATE_OFF

----------------------------------------------------------------------------
(* Actions *)

ControlEvents == {"DON", "DOF", "DFON"}

Heap == [hb |-> hb, timers |-> timers, since |-> since]

NoLast == [op |-> "", nid |-> NoNode, event |-> "", pre |-> "",
           after_primary_on |-> FALSE]

\* bookkeeping: which operation ran, on what, the computed state it found,
\* and whether the operation before it was a DON on the same primary node
Did(op, nid, event, pre) ==
    [op |-> op, nid |-> nid, event |-> event, pre |-> pre,
     after_primary_on |-> /\ last.op = "positive"
                          /\ last.event = "DON"
                          /\ last.nid = nid]

SetHeap(H) ==
    /\ hb' = H.hb
    /\ timers' = H.timers
    /\ since' = H.since

Detect ==
    /\ pc = "detect"
    /\ pc' = "detected"
    /\ type_result' = DetectDeviceType(type_arg)
    /\ last' = Did("detect", NoNode, "", "")
    /\ UNCHANGED <<type_arg, connected, nodes, programs, devices, dev, hb,
                   added, timers, since>>

SetupPlatform ==
    /\ pc = "start"
    /\ last' = Did("setup", NoNode, "", "")
    /\ IF ~connected
       THEN /\ pc' = "not_connected"
            /\ UNCHANGED <<devices, dev, hb, since>>
       ELSE LET st == RunSetup(nodes, programs) IN
            IF st.raised
            THEN /\ pc' = "raised"
                 /\ UNCHANGED <<devices, dev, hb, since>>
            ELSE /\ pc' = "done"
                 /\ devices' = st.devices
                 /\ dev' = st.dev
                 /\ hb' = st.hb
                 /\ since' = [h \in DOMAIN st.hb |-> 0 - 1]
    /\ UNCHANGED <<type_arg, type_result, connected, nodes, programs, added,
                   timers>>

\* ISYBinarySensorDevice.async_added_to_hass for the i-th entity handed to
\* add_devices: the control handlers are subscribed
DeviceAddedToHass(i) ==
    /\ pc = "done"
    /\ i \in 1..Len(devices)
    /\ devices[i].kind = "device"
    /\ devices[i] \notin added
    /\ added' = added \cup {devices[i]}
    /\ last' = Did("added", devices[i].id, "",
                   dev[devices[i].id].computed_state)
    /\ UNCHANGED <<pc, type_arg, type_result, connected, nodes, programs,
                   devices, dev, hb, timers, since>>

\* ISYBinarySensorHeartbeat.async_added_to_hass: the control handler is
\* subscribed and the timer started
HeartbeatAddedToHass(i) ==
    /\ pc = "done"
    /\ i \in 1..Len(devices)
    /\ devices[i].kind = "heartbeat"
    /\ devices[i] \notin added
    /\ added' = added \cup {devices[i]}
    /\ CanRestart(Heap, devices[i].id)
    /\ SetHeap([RestartTimer(Heap, devices[i].id)
                   EXCEPT !.since[devices[i].id] = 0])
    /\ last' = Did("added", devices[i].id, "",
                   hb[devices[i].id].computed_state)
    /\ UNCHANGED <<pc, type_arg, type_result, connected, nodes, programs,
                   devices, dev>>

\* a program sensor is attached: it has no hook of its own
ProgramAddedToHass(i) ==
    /\ pc = "done"
    /\ i \in 1..Len(devices)
    /\ devices[i].kind = "program"
    /\ devices[i] \notin added
    /\ added' = added \cup {devices[i]}
    /\ last' = Did("added", devices[i].id, "", "")
    /\ UNCHANGED <<pc, type_arg, type_result, connected, nodes, programs,
                   devices, dev, hb, timers, since>>

PositiveNodeControlHandler(d, event) ==
    /\ pc = "done"
    /\ d \in DOMAIN dev
    /\ Entity("device", d) \in added
    /\ last' = Did("positive", d, event, dev[d].computed_state)
    /\ LET r == PositiveResult(dev[d].computed_state, event) IN
       /\ dev' = [dev EXCEPT ![d].computed_state = r.computed_state]
       /\ IF r.beat
          THEN /\ CanDeviceHeartbeat(Heap, d)
               /\ SetHeap(DeviceHeartbeat(Heap, d))
          ELSE UNCHANGED <<hb, timers, since>>
    /\ UNCHANGED <<pc, type_arg, type_result, connected, nodes, programs,
                   devices, added>>

NegativeNodeControlHandler(d, event) ==
    /\ pc = "done"
    /\ d \in DOMAIN dev
    /\ Entity("device", d) \in added
    /\ dev[d].negative_node # NoNode
    /\ last' = Did("negative", d, event, dev[d].computed_state)
    /\ LET r == NegativeResult(dev[d].computed_state, event) IN
       /\ dev' = [dev EXCEPT ![d].computed_state = r.computed_state]
       /\ IF r.beat
          THEN /\ CanDeviceHeartbeat(Heap, d)
               /\ SetHeap(DeviceHeartbeat(Heap, d))
          ELSE UNCHANGED <<hb, timers, since>>
    /\ UNCHANGED <<pc, type_arg, type_result, connected, nodes, programs,
                   devices, added>>

HeartbeatNodeControlHandler(h, event) ==
    /\ pc = "done"
    /\ h \in DOMAIN hb
    /\ Entity("heartbeat", h) \in added
    /\ last' = Did("heartbeat_node", h, event, hb[h].computed_state)
    /\ IF HeartbeatNodeBeats(event)
       THEN /\ CanRestart(Heap, h)
            /\ SetHeap(HeartbeatBeat(Heap, h))
       ELSE UNCHANGED <<hb, timers, since>>
    /\ UNCHANGED <<pc, type_arg, type_result, connected, nodes, programs,
                   devices, dev, added>>

\* ISYBinarySensorDevice.on_update: status updates are ignored
DeviceOnUpdate(d) ==
    /\ pc = "done"
    /\ d \in DOMAIN dev
    /\ Entity("device", d) \in added
    /\ last' = Did("on_update", d, "", dev[d].computed_state)
    /\ UNCHANGED <<pc, type_arg, type_result, connected, nodes, programs,
                   devices, dev, hb, added, timers, since>>

\* ISYBinarySensorHeartbeat.on_update: status updates are ignored
HeartbeatOnUpdate(h) ==
    /\ pc = "done"
    /\ h \in DOMAIN hb
    /\ Entity("heartbeat", h) \in added
    /\ last' = Did("on_update", h, "", hb[h].computed_state)
    /\ UNCHANGED <<pc, type_arg, type_result, connected, nodes, programs,
                   devices, dev, hb, added, timers, since>>

\* one hour passes; the host has attached every entity of add_devices well
\* within the first hour, and a listener whose point in time has come runs
\* before the clock moves on
Tick ==
    /\ pc = "done"
    /\ \A i \in 1..Len(devices) : devices[i] \in added
    /\ \A k \in Pending(timers) : timers[k].remaining > 0
    /\ timers' = [k \in Slots |->
                    IF timers[k] = NoTimer THEN NoTimer
                    ELSE [timers[k] EXCEPT !.remaining = @ - 1]]
    /\ since' = [h \in DOMAIN since |->
                   IF since[h] < 0 \/ since[h] >= MaxSince THEN since[h]
                   ELSE since[h] + 1]
    /\ \/ timers' # timers
       \/ since' # since
    /\ last' = Did("tick", NoNode, "", "")
    /\ UNCHANGED <<pc, type_arg, type_result, connected, nodes, programs,
                   devices, dev, hb, added>>

\* the host runs the listener in slot k at its point in time and drops it
TimerElapsed(k) ==
    /\ pc = "done"
    /\ k \in Pending(timers)
    /\ timers[k].remaining = 0
    /\ last' = Did("timer_elapsed", timers[k].owner, "",
                   hb[timers[k].owner].computed_state)
    /\ SetHeap(TimerElapsedCallback(
                 [Heap EXCEPT !.timers[k] = NoTimer], timers[k].owner))
    /\ UNCHANGED <<pc, type_arg, type_result, connected, nodes, programs,
                   devices, dev, added>>

----------------------------------------------------------------------------
(* Inputs *)

NoTypeArg == [has_type |-> FALSE, type |-> <<>>]

TypeCodes == UNION {[1..n -> TypeChars] : n \in 0..MaxTypeLen}
TypeArgs == {NoTypeArg} \cup {[has_type |-> TRUE, type |-> c] : c \in TypeCodes}

\* the controller reports four-component type codes
MoistureType == <<"1", "6", ".", "8", ".", "6", "5", ".", "0">>
OpeningType == <<"1", "6", ".", "2", ".", "6", "4", ".", "0">>
MotionType == <<"1", "6", ".", "1", ".", "6", "5", ".", "0">>

Node(nid, parent, has_type, type, val) ==
    [nid |-> nid, parent_node |-> parent, has_type |-> has_type,
     type |-> type, val |-> val]

StatusVals == {NegInf, 0, 255}

Primary == <<"A", "1">>
Negative == <<"A", "2">>
HeartbeatNid == <<"A", "4">>

\* one physical sensor: its primary node, optionally its negative node and
\* its heartbeat node
SensorNodes(has_type, type, val, neg, negval, beat) ==
    <<Node(Primary, NoNode, has_type, type, val)>>
    \o (IF neg THEN <<Node(Negative, Primary, has_type, type, negval)>>
        ELSE <<>>)
    \o (IF beat THEN <<Node(HeartbeatNid, Primary, has_type, type, 0)>>
        ELSE <<>>)

SensorTypes == {MoistureType, OpeningType, MotionType}

SensorConfigs ==
    {SensorNodes(TRUE, t, v, n, nv, b) :
        t \in SensorTypes, v \in StatusVals, n \in BOOLEAN,
        nv \in {NegInf, 0}, b \in BOOLEAN}
    \cup {SensorNodes(FALSE, <<>>, v, FALSE, 0, FALSE) : v \in StatusVals}

\* program names, written like node ids so that entity ids compare
ProgramNames == << <<"P", "1">>, <<"P", "2">>, <<"P", "3">>, <<"P", "4">> >>

ProgramLists ==
    UNION {{[i \in 1..n |-> [name |-> ProgramNames[i], status |-> f[i]]] :
              f \in [1..n -> {"missing", "True", "False"}]} :
           n \in 0..MaxPrograms}

InitCommon ==
    /\ type_result = ""
    /\ devices = <<>>
    /\ dev = EmptyFn
    /\ hb = EmptyFn
    /\ added = {}
    /\ timers = [k \in Slots |-> NoTimer]
    /\ since = EmptyFn
    /\ last = NoLast

Init ==
    /\ pc = "start"
    /\ type_arg = NoTypeArg
    /\ connected = TRUE
    /\ nodes \in SensorConfigs
    /\ programs \in ProgramLists
    /\ InitCommon

Next ==
    \/ SetupPlatform
    \/ \E i \in 1..Len(devices) : DeviceAddedToHass(i)
    \/ \E i \in 1..Len(devices) : HeartbeatAddedToHass(i)
    \/ \E i \in 1..Len(devices) : ProgramAddedToHass(i)
    \/ \E d \in DOMAIN dev, e \in ControlEvents :
          PositiveNodeControlHandler(d, e)
    \/ \E d \in DOMAIN dev, e \in ControlEvents :
          NegativeNodeControlHandler(d, e)
    \/ \E h \in DOMAIN hb, e \in ControlEvents :
          HeartbeatNodeControlHandler(h, e)
    \/ \E d \in DOMAIN dev : DeviceOnUpdate(d)
    \/ \E h \in DOMAIN hb : HeartbeatOnUpdate(h)
    \/ Tick
    \/ \E k \in Slots : TimerElapsed(k)

Spec == Init /\ [][Next]_vars

\* one moisture sensor with a heartbeat node, with or without a negative
\* node, and no programs
InitLive ==
    /\ pc = "start"
    /\ type_arg = NoTypeArg
    /\ connected = TRUE
    /\ nodes \in {SensorNodes(TRUE, MoistureType, 0, n, 0, TRUE) :
                    n \in BOOLEAN}
    /\ programs = <<>>
    /\ InitCommon

NextLive ==
    \/ SetupPlatform
    \/ \E i \in 1..Len(devices) : DeviceAddedToHass(i)
    \/ \E i \in 1..Len(devices) : HeartbeatAddedToHass(i)
    \/ \E d \in DOMAIN dev, e \in ControlEvents :
          PositiveNodeControlHandler(d, e)
    \/ \E d \in DOMAIN dev, e \in ControlEvents :
          NegativeNodeControlHandler(d, e)
    \/ \E h \in DOMAIN hb, e \in ControlEvents :
          HeartbeatNodeControlHandler(h, e)
    \/ \E d \in DOMAIN dev : DeviceOnUpdate(d)
    \/ \E h \in DOMAIN hb : HeartbeatOnUpdate(h)
    \/ Tick
    \/ \E k \in Slots : TimerElapsed(k)

\* the host runs setup, attaches every entity it was handed, its clock
\* moves on and it runs each listener whose point in time has come
Fairness ==
    /\ WF_vars(SetupPlatform)
    /\ WF_vars(\E i \in 1..Len(devices) : DeviceAddedToHass(i))
    /\ WF_vars(\E i \in 1..Len(devices) : HeartbeatAddedToHass(i))
    /\ WF_vars(Tick)
    /\ WF_vars(\E k \in Slots : TimerElapsed(k))

SpecLive == InitLive /\ [][NextLive]_vars /\ Fairness

InitType ==
    /\ pc = "detect"
    /\ type_arg \in TypeArgs
    /\ connected = TRUE
    /\ nodes = <<>>
    /\ programs = <<>>
    /\ InitCommon

NextType == Detect

SpecType == InitType /\ [][NextType]_vars

----------------------------------------------------------------------------
(* Platform setup over arbitrary node and program lists *)

Unlisted == <<"C", "1">>     \* a node that is not among the sensor nodes
RootNids == {<<"A", "1">>, <<"B", "1">>}
SubNids == {<<"A", "2">>, <<"A", "3">>, <<"A", "4">>}

\* the status value each listed node reports
SetupVal(nid) == IF nid = <<"B", "1">> THEN NegInf ELSE 255

SetupNodes ==
    {Node(n, p, TRUE, t, SetupVal(n)) :
        n \in RootNids, p \in {NoNode, Unlisted},
        t \in {MoistureType, MotionType}}
    \cup {Node(n, p, FALSE, <<>>, SetupVal(n)) :
        n \in RootNids, p \in {NoNode, Unlisted}}
    \cup {Node(n, p, TRUE, t, SetupVal(n)) :
        n \in SubNids, p \in {<<"A", "1">>, Unlisted},
        t \in {MoistureType, MotionType}}

DistinctNids(ns) ==
    \A i, j \in 1..Len(ns) : i # j => ns[i].nid # ns[j].nid

NodeLists ==
    {ns \in UNION {[1..n -> SetupNodes] : n \in 0..MaxNodes} :
        DistinctNids(ns)}

InitSetup ==
    /\ pc = "start"
    /\ type_arg = NoTypeArg
    /\ connected \in BOOLEAN
    /\ nodes \in NodeLists
    /\ programs \in ProgramLists
    /\ ~connected => programs = <<>>
    /\ InitCommon

NextSetup == SetupPlatform

SpecSetup == InitSetup /\ [][NextSetup]_vars

----------------------------------------------------------------------------
(* Program-backed sensors *)

\* ISYDevice.value of a program sensor: the status value of its program
ProgramValue(name) ==
    programs[CHOOSE i \in 1..Len(programs) : programs[i].name = name].status

ProgramIsOn_Inverted(name) == Not(ProgramValue(name))

\* ISYBinarySensorProgram.is_on
ProgramIsOn(name) == Bool(ProgramValue(name))

\* the controller reports a new status of the i-th program
ProgramStatusChanged(i, v) ==
    /\ i \in 1..Len(programs)
    /\ programs[i].status \notin {"missing", v}
    /\ programs' = [programs EXCEPT ![i].status = v]
    /\ last' = Did("program_status", programs[i].name, "", programs[i].status)
    /\ UNCHANGED <<pc, type_arg, type_result, connected, nodes, devices, dev,
                   hb, added, timers, since>>

ListedPrograms ==
    UNION {{[i \in 1..n |-> [name |-> ProgramNames[i], status |-> f[i]]] :
              f \in [1..n -> {"missing", "True", "False"}]} :
           n \in 0..MaxListed}

InitProgram ==
    /\ pc = "start"
    /\ type_arg = NoTypeArg
    /\ connected = TRUE
    /\ nodes = <<>>
    /\ programs \in ListedPrograms
    /\ InitCommon

NextProgram ==
    \/ SetupPlatform
    \/ \E i \in 1..Len(devices) : ProgramAddedToHass(i)
    \/ \E i \in 1..Len(programs), v \in {"True", "False"} :
          ProgramStatusChanged(i, v)

SpecProgram == InitProgram /\ [][NextProgram]_vars

----------------------------------------------------------------------------
(* Setup of one parent node and its child nodes *)

\* a type code that no table lists, although '16.1' is a prefix of it
UnlistedType == <<"1", "6", ".", "1", "8", ".", "6", "5", ".", "0">>

ChildNids == SubNids \cup {<<"B", "1">>}

ChildNodes ==
    {Node(n, Primary, TRUE, t, 255) :
        n \in ChildNids,
        t \in {MoistureType, OpeningType, MotionType, UnlistedType}}
    \cup {Node(n, Primary, FALSE, <<>>, 255) : n \in ChildNids}

ChildLists ==
    {ns \in UNION {[1..n -> ChildNodes] : n \in 0..MaxChildren} :
        DistinctNids(ns)}

InitChildren ==
    /\ pc = "start"
    /\ type_arg = NoTypeArg
    /\ connected = TRUE
    /\ \E cs \in ChildLists :
          nodes = <<Node(Primary, NoNode, TRUE, MoistureType, 255)>> \o cs
    /\ programs = <<>>
    /\ InitCommon

NextChildren == SetupPlatform

SpecChildren == InitChildren /\ [][NextChildren]_vars

----------------------------------------------------------------------------
(* Properties *)

\* the last operation was an event the device acts on
Qualifying(l) ==
    \/ l.op = "positive" /\ l.event \in {"DON", "DOF"}
    \/ l.op = "negative" /\ l.event = "DON"

PendingOf(h) == {k \in Pending(timers) : timers[k].owner = h}

\* C1: whatever the computed state was, a DON on the primary node leaves the
\* device on, a DOF on the primary node leaves it off, and a DON on the
\* attached negative node leaves it off.
C1_EventSetsState ==
    /\ (last.op = "positive" /\ last.event = "DON")
          => dev[last.nid].computed_state = "True"
    /\ (last.op = "positive" /\ last.event = "DOF")
          => dev[last.nid].computed_state = "False"
    /\ (last.op = "negative" /\ last.event = "DON")
          => /\ dev[last.nid].negative_node # NoNode
             /\ dev[last.nid].computed_state = "False"

\* a DON on the negative node has turned a device that was on to off
C1_Witness ==
    /\ last.op = "negative"
    /\ last.event = "DON"
    /\ last.pre = "True"
    /\ dev[last.nid].computed_state = "False"

\* C2: the heartbeat flag is dead only when 25 hours have passed since the
\* last reset (attach or liveness notification) with none in between; it
\* turns dead by the countdown running out exactly at hour 25, and it is
\* dead whenever more than 25 hours have passed.
C2_DeadIffTwentyFiveHours ==
    \A h \in DOMAIN hb :
        /\ hb[h].computed_state = "True" => since[h] >= 25
        /\ since[h] > 25 => hb[h].computed_state = "True"
        /\ (last.op = "timer_elapsed" /\ last.nid = h)
              => /\ since[h] = 25
                 /\ hb[h].computed_state = "True"
        /\ (since[h] = 25 /\ hb[h].computed_state # "True")
              => \E k \in PendingOf(h) : timers[k].remaining = 0

\* the countdown ran out on a companion that had been notified alive
C2_Witness ==
    /\ last.op = "timer_elapsed"
    /\ last.pre = "False"
    /\ hb[last.nid].computed_state = "True"
    /\ since[last.nid] = 25

\* C3: every qualifying event of a device notifies its heartbeat companion,
\* state change or not: afterwards the companion is alive and a fresh 25
\* hour countdown is its only one; without a companion the event touches
\* nothing but the device's own computed state.
C3_EventBeats ==
    [][Qualifying(last') =>
         LET d == last'.nid
             h == dev[d].heartbeat_device
         IN /\ \A o \in DOMAIN dev \ {d} : dev'[o] = dev[o]
            /\ dev'[d] = [dev[d] EXCEPT !.computed_state =
                                          dev'[d].computed_state]
            /\ IF h # NoNode
               THEN /\ hb'[h].computed_state = "False"
                    /\ since'[h] = 0
                    /\ \A k \in Slots :
                          IF k = hb'[h].heartbeat_timer
                          THEN /\ timers'[k].owner = h
                               /\ timers'[k].remaining = 25
                          ELSE timers'[k].owner # h
               ELSE UNCHANGED <<hb, timers, since>>]_vars

\* a DON arrived on a device that was already on, hours after the last
\* notification, and its companion is alive with a fresh countdown
C3_Witness ==
    /\ last.op = "positive"
    /\ last.event = "DON"
    /\ last.pre = "True"
    /\ dev[last.nid].heartbeat_device # NoNode
    /\ hb[dev[last.nid].heartbeat_device].computed_state = "False"
    /\ \E k \in Slots :
          /\ timers[k].owner = dev[last.nid].heartbeat_device
          /\ timers[k].remaining = 25

\* C4: a heartbeat companion never has more than one countdown scheduled,
\* and the one scheduled is the one its handle names, armed at the last
\* reset: no superseded countdown is left to fire.
C4_OneCountdown ==
    \A h \in DOMAIN hb :
        /\ Cardinality(PendingOf(h)) <= 1
        /\ \A k \in PendingOf(h) :
              /\ hb[h].heartbeat_timer = k
              /\ timers[k].remaining = 25 - since[h]
        /\ (last.op = "timer_elapsed" /\ last.nid = h) => PendingOf(h) = {}

\* a notification restarted a countdown that was already running
C4_Witness ==
    /\ last.op = "heartbeat_node"
    /\ last.event = "DON"
    /\ last.pre = "False"
    /\ Cardinality(PendingOf(last.nid)) = 1
    /\ since[last.nid] = 0

\* the primary node of device d, as listed
NodeOf(d) == CHOOSE i \in 1..Len(nodes) : nodes[i].nid = d

C6_MoistureInverts ==
    \A d \in DOMAIN dev :
        LET c == dev[d].computed_state IN
        IF c = "None"
        THEN DeviceValue(d) = "None" /\ DeviceState(d) = "None"
        ELSE IF dev[d].device_class = "moisture"
        THEN /\ DeviceValue(d) = (IF c = "True" THEN "False" ELSE "True")
             /\ DeviceIsOn(d) = (IF c = "True" THEN "False" ELSE "True")
             /\ DeviceState(d) = (IF c = "True" THEN "off" ELSE "on")
        ELSE /\ DeviceValue(d) = c
             /\ DeviceIsOn(d) = c
             /\ DeviceState(d) = (IF c = "True" THEN "on" ELSE "off")

\* a moisture sensor whose primary node sent DON is exposed as off
C6_Witness ==
    \E d \in DOMAIN dev :
        /\ dev[d].device_class = "moisture"
        /\ dev[d].computed_state = "True"
        /\ last.op = "positive"
        /\ last.nid = d
        /\ DeviceState(d) = "off"

\* C7: a DON on the primary node followed by a DON on the negative node
\* leaves the device off.
C7_OnThenNegativeOn ==
    (last.op = "negative" /\ last.event = "DON" /\ last.after_primary_on)
        => dev[last.nid].computed_state = "False"

\* the negative node's DON came right after the primary node's DON
C7_Witness ==
    /\ last.op = "negative"
    /\ last.event = "DON"
    /\ last.after_primary_on
    /\ last.pre = "True"
    /\ dev[last.nid].computed_state = "False"

\* nids of the listed nodes that have no parent node: each gets a device
Roots == {nodes[i].nid : i \in {j \in 1..Len(nodes) :
                                  nodes[j].parent_node = NoNode}}

\* a listed child node whose parent has no registered device
IsOrphan(n) == n.parent_node # NoNode /\ n.parent_node \notin Roots

Entities == {devices[i] : i \in 1..Len(devices)}

\* C8: setup never raises on a child whose parent has no registered device:
\* nothing is created for that child, and every other node and every program
\* with a status is processed and handed to add_devices.
C8_OrphanSkipped ==
    /\ pc # "raised"
    /\ pc = "done" =>
        /\ \A i \in 1..Len(nodes) :
              LET n == nodes[i] IN
              IF IsOrphan(n)
              THEN /\ \A e \in Entities : e.id # n.nid
                   /\ n.nid \notin DOMAIN dev
                   /\ n.nid \notin DOMAIN hb
                   /\ \A d \in DOMAIN dev :
                         /\ dev[d].negative_node # n.nid
                         /\ dev[d].heartbeat_device # n.nid
              ELSE IF n.parent_node = NoNode
              THEN Entity("device", n.nid) \in Entities
              ELSE IF DetectDeviceType(n) \in {"moisture", "opening"}
              THEN /\ n.nid[2] = "4" =>
                         /\ Entity("heartbeat", n.nid) \in Entities
                         /\ dev[n.parent_node].heartbeat_device = n.nid
                   /\ n.nid[2] = "2" =>
                         dev[n.parent_node].negative_node = n.nid
              ELSE Entity("device", n.nid) \in Entities
        /\ \A i \in 1..Len(programs) :
              programs[i].status # "missing"
                  => Entity("program", programs[i].name) \in Entities

\* setup finished over a list with an orphan child, a heartbeat child of a
\* registered parent listed after it, and a program
C8_Witness ==
    /\ pc = "done"
    /\ Len(nodes) = 3
    /\ IsOrphan(nodes[1])
    /\ nodes[2].parent_node = NoNode
    /\ Entity("heartbeat", nodes[3].nid) \in Entities
    /\ \E e \in Entities : e.kind = "program"
    /\ Len(devices) = 3

\* C9: the classifier never fails: a node without a type attribute and every
\* type code, also one with fewer than two components, gives a class or no
\* match.
C9_NeverFatal ==
    pc = "detected" =>
        /\ type_result \in {"None", "moisture", "opening", "motion"}
        /\ ~type_arg.has_type => type_result = "None"
        /\ (type_arg.has_type /\ Len(Split(type_arg.type)) < 2)
               => type_result = "None"

\* the class whose table lists the pair, "None" when no table does
ClassOfPair(pair) ==
    IF pair \in ISY_DEVICE_TYPES.moisture THEN "moisture"
    ELSE IF pair \in ISY_DEVICE_TYPES.opening THEN "opening"
    ELSE IF pair \in ISY_DEVICE_TYPES.motion THEN "motion"
    ELSE "None"

\* C10: for every type code the result is decided by its two leading
\* components alone: the class whose table lists '<first>.<second>', and no
\* match when no table lists it (a code without a second component has no
\* such pair).
C10_LeadingPairDecides ==
    (pc = "detected" /\ type_arg.has_type) =>
        LET parts == Split(type_arg.type) IN
        IF Len(parts) >= 2
        THEN type_result = ClassOfPair(parts[1] \o <<".">> \o parts[2])
        ELSE type_result = "None"

\* on codes that have two leading components the classifier does return the
\* class of the pair
LeadingPairDecidesWhenPresent ==
    (pc = "detected" /\ type_arg.has_type
        /\ Len(Split(type_arg.type)) >= 2) =>
        type_result = ClassOfPair(Split(type_arg.type)[1] \o <<".">>
                                  \o Split(type_arg.type)[2])

\* C11 as stated: a DOF on the negative node notifies the heartbeat
\* companion, which is then alive with the hours counted from zero.
C11_NegativeOffBeats ==
    (/\ last.op = "negative"
     /\ last.event = "DOF"
     /\ dev[last.nid].heartbeat_device # NoNode)
        => /\ hb[dev[last.nid].heartbeat_device].computed_state = "False"
           /\ since[dev[last.nid].heartbeat_device] = 0

\* C11 as amended: on the negative node it is the DON that notifies the
\* heartbeat companion (alive, one fresh 25 hour countdown); any other
\* event on the negative node, DOF included, changes neither the device nor
\* the companion nor its countdown.
C11_NegativeOnBeats ==
    [][last'.op = "negative" =>
         LET h == dev[last'.nid].heartbeat_device IN
         IF last'.event = "DON"
         THEN h # NoNode =>
                /\ hb'[h].computed_state = "False"
                /\ since'[h] = 0
                /\ timers'[hb'[h].heartbeat_timer].owner = h
                /\ timers'[hb'[h].heartbeat_timer].remaining = 25
         ELSE UNCHANGED <<dev, hb, timers, since>>]_vars

\* a DOF came on the negative node hours after the last notification and
\* the companion's countdown kept running
C11_Witness ==
    /\ last.op = "negative"
    /\ last.event = "DOF"
    /\ dev[last.nid].heartbeat_device # NoNode
    /\ hb[dev[last.nid].heartbeat_device].computed_state = "False"
    /\ since[dev[last.nid].heartbeat_device] > 0
    /\ PendingOf(dev[last.nid].heartbeat_device) # {}

\* C12: a program sensor's is_on is the status of its program at every
\* moment, also after the status changed; a program without a status entry
\* gets no entity and the programs listed with it still get theirs.
C12_ProgramPassthrough ==
    pc = "done" =>
        \A i \in 1..Len(programs) :
            IF programs[i].status = "missing"
            THEN \A e \in Entities : e.id # programs[i].name
            ELSE /\ Entity("program", programs[i].name) \in Entities
                 /\ ProgramIsOn(programs[i].name) = programs[i].status

\* three programs were listed, the second without a status; the other two
\* have sensors, and the third's status has just changed to off
C12_Witness ==
    /\ pc = "done"
    /\ Len(programs) = 3
    /\ programs[2].status = "missing"
    /\ Len(devices) = 2
    /\ last.op = "program_status"
    /\ last.nid = programs[3].name
    /\ last.pre = "True"
    /\ ProgramIsOn(programs[3].name) = "False"
    /\ ProgramIsOn(programs[1].name) = "True"

\* the last operation was a liveness notification to companion h
Notified(l, h) ==
    \/ l.op = "heartbeat_node" /\ l.event = "DON" /\ l.nid = h
    \/ /\ Qualifying(l)
       /\ l.nid \in DOMAIN dev
       /\ dev[l.nid].heartbeat_device = h

\* the flag of companion h, once setup has created it
FlagOf(h) == IF h \in DOMAIN hb THEN hb[h].computed_state ELSE "absent"

\* C13: a heartbeat companion is created unknown with no countdown;
\* attaching it arms one 25 hour countdown and leaves the flag as it is; the
\* flag leaves unknown only to dead, by that countdown running out at hour
\* 25, or to alive, by a notification; and an unknown flag does not stay
\* unknown for ever.
C13_StartsUnknown ==
    /\ [](last.op = "setup" =>
             \A h \in DOMAIN hb :
                 /\ hb[h].computed_state = "None"
                 /\ hb[h].heartbeat_timer = NoHandle
                 /\ PendingOf(h) = {})
    /\ [][\A h \in DOMAIN hb :
             /\ (last'.op = "added" /\ last'.nid = h)
                   => /\ hb'[h].computed_state = hb[h].computed_state
                      /\ timers'[hb'[h].heartbeat_timer].owner = h
                      /\ timers'[hb'[h].heartbeat_timer].remaining = 25
             /\ (hb[h].computed_state = "None"
                     /\ hb'[h].computed_state # "None")
                   => \/ /\ last'.op = "timer_elapsed"
                         /\ last'.nid = h
                         /\ since'[h] = 25
                         /\ hb'[h].computed_state = "True"
                      \/ /\ Notified(last', h)
                         /\ hb'[h].computed_state = "False"]_vars
    /\ (FlagOf(HeartbeatNid) = "None")
          ~> (FlagOf(HeartbeatNid) \in {"True", "False"})

\* no notification came in the 25 hours after attachment, and the flag went
\* from unknown to dead
C13_Witness ==
    /\ last.op = "timer_elapsed"
    /\ last.pre = "None"
    /\ hb[last.nid].computed_state = "True"
    /\ since[last.nid] = 25

\* the list ns with its i-th and (i+1)-th nodes exchanged
Swap(ns, i) ==
    [k \in 1..Len(ns) |->
        IF k = i THEN ns[i + 1] ELSE IF k = i + 1 THEN ns[i] ELSE ns[k]]

EntitiesOf(ds) == {ds[i] : i \in 1..Len(ds)}

\* C14: exchanging two neighbours of the node list, and so any reordering,
\* leaves setup with the same device objects, the same companions and the
\* same entities; a child is attached to its parent wherever the two are
\* listed; and nothing is handed to the host before setup has finished with
\* every companion linked to its parent.
C14_OrderIndependent ==
    /\ pc # "done" => devices = <<>> /\ added = {}
    /\ pc = "done" =>
        /\ \A i \in 1..(Len(nodes) - 1) :
              LET r == RunSetup(Swap(nodes, i), programs) IN
              /\ ~r.raised
              /\ r.dev = dev
              /\ r.hb = hb
              /\ EntitiesOf(r.devices) = Entities
              /\ Len(r.devices) = Len(devices)
        /\ \A i \in 1..Len(nodes) :
              (/\ nodes[i].parent_node \in Roots
               /\ DetectDeviceType(nodes[i]) \in {"moisture", "opening"})
                  => /\ nodes[i].nid[2] = "4" =>
                          dev[nodes[i].parent_node].heartbeat_device
                              = nodes[i].nid
                     /\ nodes[i].nid[2] = "2" =>
                          dev[nodes[i].parent_node].negative_node
                              = nodes[i].nid
        /\ \A h \in DOMAIN hb :
              /\ Entity("heartbeat", h) \in Entities
              /\ dev[hb[h].parent_device].heartbeat_device = h

\* the heartbeat child was listed first, its negative sibling second and
\* their parent last, and both are attached to the parent
C14_Witness ==
    /\ pc = "done"
    /\ Len(nodes) = 3
    /\ nodes[3].parent_node = NoNode
    /\ nodes[1].parent_node = nodes[3].nid
    /\ nodes[2].parent_node = nodes[3].nid
    /\ dev[nodes[3].nid].heartbeat_device = nodes[1].nid
    /\ dev[nodes[3].nid].negative_node = nodes[2].nid
    /\ Entity("heartbeat", nodes[1].nid) \in Entities

\* the list ns without its i-th node
Without(ns, i) == SubSeq(ns, 1, i - 1) \o SubSeq(ns, i + 1, Len(ns))

\* how many entries of the list handed to add_devices are the entity e
Count(e) == Cardinality({i \in 1..Len(devices) : devices[i] = e})

\* C15: for a child of a registered parent that classifies as moisture or
\* opening, subnode 4 adds exactly one heartbeat entity and becomes the
\* parent's companion, subnode 2 adds no entity and becomes the parent's
\* negative node, any other subnode leaves setup as if the child were not
\* listed; a child of any other class is added as a device of its own.
C15_ChildHandling ==
    pc = "done" =>
        \A i \in 1..Len(nodes) :
            LET n == nodes[i]
                p == n.parent_node
            IN
            (p # NoNode /\ p \in Roots) =>
                IF DetectDeviceType(n) \in {"moisture", "opening"}
                THEN /\ Count(Entity("device", n.nid)) = 0
                     /\ n.nid \notin DOMAIN dev
                     /\ IF n.nid[2] = "4"
                        THEN /\ Count(Entity("heartbeat", n.nid)) = 1
                             /\ dev[p].heartbeat_device = n.nid
                             /\ hb[n.nid].parent_device = p
                             /\ hb[n.nid].computed_state = "None"
                        ELSE /\ Count(Entity("heartbeat", n.nid)) = 0
                             /\ n.nid \notin DOMAIN hb
                             /\ dev[p].heartbeat_device # n.nid
                     /\ IF n.nid[2] = "2"
                        THEN dev[p].negative_node = n.nid
                        ELSE dev[p].negative_node # n.nid
                     /\ n.nid[2] \notin {"2", "4"} =>
                          LET r == RunSetup(Without(nodes, i), programs) IN
                          /\ r.devices = devices
                          /\ r.dev = dev
                          /\ r.hb = hb
                ELSE /\ Count(Entity("device", n.nid)) = 1
                     /\ Count(Entity("heartbeat", n.nid)) = 0
                     /\ n.nid \in DOMAIN dev
                     /\ n.nid \notin DOMAIN hb
                     /\ dev[n.nid].negative_node = NoNode
                     /\ dev[n.nid].heartbeat_device = NoNode
                     /\ dev[p].negative_node # n.nid
                     /\ dev[p].heartbeat_device # n.nid

\* an opening child with subnode 3 was passed over and a child with
\* subnode 4 whose type no table lists became a device of its own
C15_Witness ==
    /\ pc = "done"
    /\ Len(nodes) = 3
    /\ nodes[2].parent_node = nodes[1].nid
    /\ DetectDeviceType(nodes[2]) = "opening"
    /\ nodes[2].nid[2] = "3"
    /\ nodes[3].parent_node = nodes[1].nid
    /\ nodes[3].type = UnlistedType
    /\ nodes[3].nid[2] = "4"
    /\ devices = <<Entity("device", nodes[1].nid),
                   Entity("device", nodes[3].nid)>>

\* C16: a control event on the primary node other than DON and DOF, a
\* control event on the negative node other than DON, and a status update
\* through on_update change no device and no companion: no computed state,
\* no flag, no countdown, no count of hours.
C16_OthersIgnored ==
    [][(\/ last'.op = "positive" /\ last'.event \notin {"DON", "DOF"}
        \/ last'.op = "negative" /\ last'.event # "DON"
        \/ last'.op = "on_update" /\ last'.nid \in DOMAIN dev)
          => UNCHANGED <<dev, hb, timers, since, devices, added>>]_vars

\* a DFON came on the primary node of a device that was off, hours after
\* the last notification of its companion, and the device is still off
C16_Witness ==
    /\ last.op = "positive"
    /\ last.event = "DFON"
    /\ last.pre = "False"
    /\ dev[last.nid].computed_state = "False"
    /\ dev[last.nid].heartbeat_device # NoNode
    /\ since[dev[last.nid].heartbeat_device] > 0
    /\ PendingOf(dev[last.nid].heartbeat_device) # {}

\* C17: on the heartbeat node a DON marks the companion alive and leaves
\* it one fresh 25 hour countdown; any other control event on that node and
\* any status update of the companion change neither the flag nor the
\* countdown nor anything else.
C17_OnlyOnBeats ==
    [][/\ last'.op = "heartbeat_node" =>
            IF last'.event = "DON"
            THEN /\ hb'[last'.nid].computed_state = "False"
                 /\ since'[last'.nid] = 0
                 /\ \A k \in Slots :
                       IF k = hb'[last'.nid].heartbeat_timer
                       THEN /\ timers'[k].owner = last'.nid
                            /\ timers'[k].remaining = 25
                       ELSE timers'[k].owner # last'.nid
                 /\ UNCHANGED dev
            ELSE UNCHANGED <<dev, hb, timers, since>>
       /\ (last'.op = "on_update" /\ last'.nid \in DOMAIN hb)
            => UNCHANGED <<dev, hb, timers, since>>]_vars

\* a DOF came on the heartbeat node of a companion that was dead, and it
\* is still dead with no countdown
C17_Witness ==
    /\ last.op = "heartbeat_node"
    /\ last.event = "DOF"
    /\ last.pre = "True"
    /\ hb[last.nid].computed_state = "True"
    /\ PendingOf(last.nid) = {}

\* C18: the flag and the timer of a heartbeat companion agree: alive means
\* the countdown its handle names is pending, dead means no countdown and
\* no handle; and a dead flag changes only by a notification, to alive.
C18_FlagAndTimerAgree ==
    /\ [](\A h \in DOMAIN hb :
             /\ hb[h].computed_state = "False"
                   => /\ PendingOf(h) # {}
                      /\ hb[h].heartbeat_timer \in PendingOf(h)
             /\ hb[h].computed_state = "True"
                   => /\ PendingOf(h) = {}
                      /\ hb[h].heartbeat_timer = NoHandle)
    /\ [][\A h \in DOMAIN hb :
             (hb[h].computed_state = "True" /\ hb'[h].computed_state # "True")
                 => /\ Notified(last', h)
                    /\ hb'[h].computed_state = "False"]_vars

\* a dead companion was notified and is alive again with a countdown
C18_Witness ==
    /\ last.op = "heartbeat_node"
    /\ last.event = "DON"
    /\ last.pre = "True"
    /\ hb[last.nid].computed_state = "False"
    /\ PendingOf(last.nid) = {hb[last.nid].heartbeat_timer}

\* C19: for a device and for a heartbeat companion the reported state is
\* unknown exactly when the computed state is, is_on is false when the
\* state is unknown, and otherwise the state is on exactly when is_on is
\* true.
C19_StateAndIsOn ==
    /\ \A d \in DOMAIN dev :
          /\ DeviceState(d) = "None" <=> dev[d].computed_state = "None"
          /\ DeviceState(d) = "None" => DeviceIsOn(d) = "False"
          /\ DeviceState(d) # "None" =>
                /\ DeviceState(d) \in {"on", "off"}
                /\ DeviceState(d) = "on" <=> DeviceIsOn(d) = "True"
          /\ DeviceIsOn(d) \in {"True", "False"}
    /\ \A h \in DOMAIN hb :
          /\ HeartbeatState(h) = "None" <=> hb[h].computed_state = "None"
          /\ HeartbeatState(h) = "None" => HeartbeatIsOn(h) = "False"
          /\ HeartbeatState(h) # "None" =>
                /\ HeartbeatState(h) \in {"on", "off"}
                /\ HeartbeatState(h) = "on" <=> HeartbeatIsOn(h) = "True"
          /\ HeartbeatIsOn(h) \in {"True", "False"}

\* a moisture device is off, so reported on, while its companion is still
\* unknown
C19_Witness ==
    \E d \in DOMAIN dev :
        /\ dev[d].device_class = "moisture"
        /\ dev[d].computed_state = "False"
        /\ DeviceState(d) = "on"
        /\ DeviceIsOn(d) = "True"
        /\ dev[d].heartbeat_device # NoNode
        /\ HeartbeatState(dev[d].heartbeat_device) = "None"
        /\ HeartbeatIsOn(dev[d].heartbeat_device) = "False"
        /\ Entity("heartbeat", dev[d].heartbeat_device) \in added

====
